---- MODULE Spec2Model ----
(***************************************************************************)
(* A model of the sun widget library: the accessible value handler (the    *)
(* keyboard -> value trait of sliders and number spinners), the number     *)
(* spinner's hold-to-repeat listener, the interaction-state properties of  *)
(* the buttons, and the radio button group members.                        *)
(*                                                                         *)
(* Numbers are integers.  The JavaScript code works on doubles; on the     *)
(* small integers used here every sum, product and quotient the code       *)
(* forms is exact or rounds to the same integer, so integer arithmetic     *)
(* gives the values the code gives.                                        *)
(***************************************************************************)
EXTENDS Integers, Sequences, FiniteSets, TLC

\* ------------------------------------------------------------------ bounds

\* values and range ends of the handler lie in 0..MaxValue
MaxValue == 1
\* step sizes handed to the setters and to the options lie in 0..MaxStep
MaxStep == 1
\* the user holds at most this many range keys down at once
MaxKeysDown == 2
\* number of members of the radio button group
NumMembers == 3
\* arguments of roundValue lie in -MaxRound..MaxRound
MaxRound == 6
\* step sizes given to roundValue lie in 0..MaxRoundStep
MaxRoundStep == 3
\* values and range ends of the handler with rounding lie in 0..MaxKeyValue
MaxKeyValue == 3
\* its keyboard and shift steps lie in 0..MaxKeyStep
MaxKeyStep == 2

Values == 0..MaxValue
Steps == 0..MaxStep
Ranges == {r \in [min : Values, max : Values] : r.min <= r.max}
\* the steps handed to the setters: the steps and a negative number
StepArgs == Steps \cup {0 - 1}
KeyValues == 0..MaxKeyValue
KeySteps == 0..MaxKeyStep
KeyRanges == {r \in [min : KeyValues, max : KeyValues] : r.min <= r.max}

\* -------------------------------------------------------------------- keys

ArrowKeys == {"up", "right", "down", "left"}
RangeKeys == ArrowKeys \cup {"pageUp", "pageDown", "home", "end"}
OtherKeys == {"shift", "tab"}
Keys == RangeKeys \cup OtherKeys

isArrowKey(code) == code \in ArrowKeys
isRangeKey(code) == code \in RangeKeys

NULL == "null"
\* no event: the null of downCallback
NoEvent == [code |-> NULL, shift |-> FALSE]

\* --------------------------------------------------------- pure functions

Abs(x) == IF x < 0 THEN 0 - x ELSE x

\* a clamp that forgets the upper end
ClampForgetsMax(v, lo, hi) == IF v < lo THEN lo ELSE v

\* DOT/Util.clamp
Clamp(v, lo, hi) == IF v < lo THEN lo ELSE IF v > hi THEN hi ELSE v

\* DOT/Util.roundSymmetric applied to the quotient n / d (d > 0):
\* ( n < 0 ? -1 : 1 ) * Math.round( Math.abs( n / d ) ), Math.round being
\* floor( x + 1/2 )
RoundSymmetricQuotient(n, d) ==
  (IF n < 0 THEN 0 - 1 ELSE 1) * ((2 * Abs(n) + d) \div (2 * d))

\* DOT/Util.equalsEpsilon( a, b, 1e-14 ): on integers, equality
EqualsEpsilon(a, b) == Abs(a - b) = 0

\* the correction with its direction reversed
correctRoundingReversed(newValue, currentValue, stepSize) ==
  LET proposedStep == Abs(newValue - currentValue)
      stepToFar == proposedStep > stepSize
      stepsAboutEqual == EqualsEpsilon(proposedStep, stepSize)
  IN IF stepToFar /\ ~stepsAboutEqual
       THEN newValue + (IF newValue > currentValue THEN stepSize ELSE 0 - stepSize)
       ELSE newValue

correctRounding(newValue, currentValue, stepSize) ==
  LET proposedStep == Abs(newValue - currentValue)
      stepToFar == proposedStep > stepSize
      stepsAboutEqual == EqualsEpsilon(proposedStep, stepSize)
  IN IF stepToFar /\ ~stepsAboutEqual
       THEN newValue + (IF newValue > currentValue THEN 0 - stepSize ELSE stepSize)
       ELSE newValue

\* a rounding to the multiple of the step below, not to the nearest
roundValueDown(newValue, currentValue, stepSize) ==
  IF stepSize # 0
    THEN (newValue \div stepSize) * stepSize
    ELSE newValue

roundValue(newValue, currentValue, stepSize) ==
  IF stepSize # 0
    THEN correctRounding(RoundSymmetricQuotient(newValue, stepSize) * stepSize,
                         currentValue, stepSize)
    ELSE newValue

\* ------------------------------------------- interaction-state functions

\* a push button that stays pressed when the pointer leaves it
PushButtonPressedWhenDown(o, d, e) ==
  IF ~e THEN "disabled"
  ELSE IF o /\ ~d THEN "over"
  ELSE IF d THEN "pressed"
  ELSE "idle"

PushButtonInteractionState(o, d, e) ==
  IF ~e THEN "disabled"
  ELSE IF o /\ ~d THEN "over"
  ELSE IF o /\ d THEN "pressed"
  ELSE "idle"

\* a momentary button that is pressed only while the pointer is over it
MomentaryPressedOnlyWhenOver(o, d, e) ==
  IF ~e THEN "disabled"
  ELSE IF o /\ ~d THEN "over"
  ELSE IF o /\ d THEN "pressed"
  ELSE "idle"

MomentaryButtonInteractionState(o, d, e) ==
  IF ~e THEN "disabled"
  ELSE IF o /\ ~d THEN "over"
  ELSE IF d THEN "pressed"
  ELSE "idle"

ToggleButtonInteractionState(o, lp, e) ==
  IF ~e THEN "disabled"
  ELSE IF o /\ ~lp THEN "over"
  ELSE IF lp THEN "pressed"
  ELSE "idle"

StickyToggleButtonInteractionState(o, d, e, isValueB) ==
  IF ~e /\ isValueB THEN "disabled-pressed"
  ELSE IF ~e THEN "disabled"
  ELSE IF o /\ ~(d \/ isValueB) THEN "over"
  ELSE IF o /\ (d \/ isValueB) THEN "pressed"
  ELSE IF isValueB THEN "pressed"
  ELSE "idle"

\* ------------------------------------------------------------------- state

VARIABLES
  \* AccessibleValueHandler
  value,               \* _valueProperty
  enabledRange,        \* _enabledRangeProperty: [min, max]
  enabled,             \* _enabledProperty
  keyboardStep,        \* _keyboardStep
  shiftKeyboardStep,   \* _shiftKeyboardStep
  pageKeyboardStep,    \* _pageKeyboardStep
  roundToStepSize,     \* roundToStepSize
  shiftKey,            \* _shiftKey
  blockInput,          \* blockInput
  a11yInputHandled,    \* a11yInputHandled
  rangeKeysDown,       \* the range keys whose entry of rangeKeysDown is true
  changeOpen,          \* startChange was called and endChange not yet
  calls,               \* the event last handled, then the callbacks, emitters
                       \* and property sets its handler made, in order; or
                       \* "external" after a change made from outside
  \* AccessibleNumberSpinner
  timerRunning,                  \* _callbackTimer.isRunning()
  timerCallbacks,                \* the callbacks added to _callbackTimer
  downCallback,                  \* downCallback: the bound keydown event
  runningTimerCallbackKeyCode,   \* runningTimerCallbackKeyCode
  \* the four kinds of button and their interaction-state properties
  over, down, buttonEnabled, looksPressed, stickyValue, interactionState,
  \* the radio button group
  property, memberOver, memberDown, memberEnabled, accessibleChecked, fired,
  \* roundValue applied to drawn arguments
  rNewValue, rCurrentValue, rStepSize, rOnce, rTwice, rPhase,
  \* what the handler's property listeners keep on the node
  ariaValueNow,        \* aria-valuenow, the input value and aria-valuetext
  attrRange,           \* the min and max attributes
  linkedListeners,     \* the listeners linked to the two properties
  \* MomentaryButtonModel
  mDown,               \* downProperty
  mEnabled,            \* enabledProperty
  mValue,              \* valueProperty
  mLinked,             \* the listeners linked to downProperty and valueProperty
  mCalls,              \* the last change made to the model from outside, then
                       \* "set" if downListener set valueProperty
  \* Checkbox
  cbProperty,          \* property
  cbEnabled,           \* enabledProperty
  cbCalls,             \* the last event on the checkbox, then what its
                       \* listener did, in order
  cbBefore             \* property before that event

handlerVars == <<value, enabledRange, enabled, keyboardStep, shiftKeyboardStep,
                 pageKeyboardStep, roundToStepSize, shiftKey, blockInput,
                 a11yInputHandled, rangeKeysDown, changeOpen, calls>>
spinnerVars == <<timerRunning, timerCallbacks, downCallback,
                 runningTimerCallbackKeyCode>>
buttonVars == <<over, down, buttonEnabled, looksPressed, stickyValue,
                interactionState>>
radioVars == <<property, memberOver, memberDown, memberEnabled,
               accessibleChecked, fired>>
roundVars == <<rNewValue, rCurrentValue, rStepSize, rOnce, rTwice, rPhase>>
attrVars == <<ariaValueNow, attrRange, linkedListeners>>
widgetVars == <<mDown, mEnabled, mValue, mLinked, mCalls, cbProperty, cbEnabled, cbCalls, cbBefore>>
vars == <<handlerVars, spinnerVars, buttonVars, radioVars, roundVars, attrVars,
          widgetVars>>

\* ------------------------------------------------ AccessibleValueHandler

\* _.identity, the default constrainValue
constrainValue(v) == v

allKeysUp(keysDown) == \A k \in keysDown : FALSE
anyKeysDown(keysDown) == \E k \in keysDown : TRUE

InEnabledRange(v) == enabledRange.min <= v /\ v <= enabledRange.max

IncreaseKeys == {"up", "right", "pageUp", "end"}
DecreaseKeys == {"down", "left", "pageDown", "home"}

\* a handler whose Page Up and Page Down take the shift step when Shift is held
KeyDownValueShiftOnPage(code, shift) ==
  IF code = "end" THEN enabledRange.max
  ELSE IF code = "home" THEN enabledRange.min
  ELSE
    LET stepSize == IF shift THEN shiftKeyboardStep
                    ELSE IF code \in {"pageUp", "pageDown"} THEN pageKeyboardStep
                    ELSE keyboardStep
        stepped == IF code \in {"pageUp", "right", "up"}
                     THEN value + stepSize ELSE value - stepSize
        rounded == IF isArrowKey(code) /\ roundToStepSize
                     THEN roundValue(stepped, value, stepSize) ELSE stepped
    IN Clamp(rounded, enabledRange.min, enabledRange.max)

\* the value handleKeyDown computes for a range key, before constrainValue
KeyDownValue(code, shift) ==
  IF code = "end" THEN enabledRange.max
  ELSE IF code = "home" THEN enabledRange.min
  ELSE
    LET stepSize == IF code \in {"pageUp", "pageDown"} THEN pageKeyboardStep
                    ELSE IF shift THEN shiftKeyboardStep ELSE keyboardStep
        stepped == IF code \in {"pageUp", "right", "up"}
                     THEN value + stepSize ELSE value - stepSize
        rounded == IF isArrowKey(code) /\ roundToStepSize
                     THEN roundValue(stepped, value, stepSize) ELSE stepped
    IN Clamp(rounded, enabledRange.min, enabledRange.max)

\* a handler that emits the attempt only when the key changes the value
KeyDownCallsSilentWhenUnchanged(code, shift) ==
  IF enabled /\ isRangeKey(code)
    THEN (IF ~anyKeysDown(rangeKeysDown) THEN <<"startChange">> ELSE <<>>)
         \o (IF KeyDownValue(code, shift) = value THEN <<>>
             ELSE <<IF code \in IncreaseKeys THEN "attemptedIncrease"
                    ELSE "attemptedDecrease">>)
         \o <<"set">>
    ELSE <<>>

\* what handleKeyDown calls, in order
KeyDownCalls(code, shift) ==
  IF enabled /\ isRangeKey(code)
    THEN (IF ~anyKeysDown(rangeKeysDown) THEN <<"startChange">> ELSE <<>>)
         \o <<IF code \in IncreaseKeys THEN "attemptedIncrease"
              ELSE "attemptedDecrease">>
         \o <<"set">>
    ELSE <<>>

\* a handler that blocks input only on a keydown it handles
handleKeyDownBlocksWhenHandled(code, shift) ==
  /\ shiftKey' = shift
  /\ blockInput' = (blockInput \/ (enabled /\ isRangeKey(code)))
  /\ IF enabled /\ isRangeKey(code)
       THEN /\ changeOpen' = (IF ~anyKeysDown(rangeKeysDown) THEN TRUE ELSE changeOpen)
            /\ rangeKeysDown' = rangeKeysDown \cup {code}
            /\ value' = constrainValue(KeyDownValue(code, shift))
       ELSE UNCHANGED <<changeOpen, rangeKeysDown, value>>
  /\ UNCHANGED <<enabledRange, enabled, keyboardStep, shiftKeyboardStep,
                 pageKeyboardStep, roundToStepSize, a11yInputHandled>>

\* handleKeyDown, but for the record of its calls
handleKeyDown(code, shift) ==
  /\ shiftKey' = shift
  /\ blockInput' = TRUE
  /\ IF enabled /\ isRangeKey(code)
       THEN /\ changeOpen' = (IF ~anyKeysDown(rangeKeysDown) THEN TRUE ELSE changeOpen)
            /\ rangeKeysDown' = rangeKeysDown \cup {code}
            /\ value' = constrainValue(KeyDownValue(code, shift))
       ELSE UNCHANGED <<changeOpen, rangeKeysDown, value>>
  /\ UNCHANGED <<enabledRange, enabled, keyboardStep, shiftKeyboardStep,
                 pageKeyboardStep, roundToStepSize, a11yInputHandled>>

\* a handler that ends the change on the release of any held range key
KeyUpEndsOnAnyRelease(code) ==
  /\ ~allKeysUp(rangeKeysDown)
  /\ enabled
  /\ isRangeKey(code)

KeyUpEnds(code) ==
  /\ ~allKeysUp(rangeKeysDown)
  /\ enabled
  /\ isRangeKey(code)
  /\ allKeysUp(rangeKeysDown \ {code})

KeyUpCalls(code) == IF KeyUpEnds(code) THEN <<"endChange">> ELSE <<>>

\* handleKeyUp, but for the record of its calls
handleKeyUp(code) ==
  /\ IF allKeysUp(rangeKeysDown)
       THEN UNCHANGED <<shiftKey, rangeKeysDown, changeOpen>>
       ELSE /\ shiftKey' = (IF code = "shift" THEN FALSE ELSE shiftKey)
            /\ IF enabled /\ isRangeKey(code)
                 THEN /\ rangeKeysDown' = rangeKeysDown \ {code}
                      /\ changeOpen' = (IF allKeysUp(rangeKeysDown \ {code})
                                          THEN FALSE ELSE changeOpen)
                 ELSE UNCHANGED <<rangeKeysDown, changeOpen>>
  /\ UNCHANGED <<value, enabledRange, enabled, keyboardStep, shiftKeyboardStep,
                 pageKeyboardStep, roundToStepSize, blockInput, a11yInputHandled>>

\* handleInput without its clamp
InputValueUnclamped(inputValue) ==
  LET stepSize == IF shiftKey THEN shiftKeyboardStep ELSE keyboardStep
      stepped == IF inputValue > value THEN value + stepSize
                 ELSE IF inputValue < value THEN value - stepSize
                 ELSE value
  IN IF roundToStepSize THEN roundValue(stepped, value, stepSize) ELSE stepped

\* the value handleInput computes, before constrainValue
InputValue(inputValue) ==
  LET stepSize == IF shiftKey THEN shiftKeyboardStep ELSE keyboardStep
      stepped == IF inputValue > value THEN value + stepSize
                 ELSE IF inputValue < value THEN value - stepSize
                 ELSE value
      rounded == IF roundToStepSize THEN roundValue(stepped, value, stepSize)
                 ELSE stepped
  IN Clamp(rounded, enabledRange.min, enabledRange.max)

InputCalls(inputValue) ==
  IF enabled /\ ~blockInput
    THEN <<"startChange">>
         \o (IF inputValue > value THEN <<"attemptedIncrease">>
             ELSE IF inputValue < value THEN <<"attemptedDecrease">>
             ELSE <<>>)
         \o <<"set", "endChange">>
    ELSE <<>>

\* the part of handleInput that handleChange shares: all but a11yInputHandled
InputBody(inputValue) ==
  /\ IF enabled /\ ~blockInput
       THEN /\ value' = constrainValue(InputValue(inputValue))
            /\ changeOpen' = FALSE
       ELSE UNCHANGED <<value, changeOpen>>
  /\ UNCHANGED <<enabledRange, enabled, keyboardStep, shiftKeyboardStep,
                 pageKeyboardStep, roundToStepSize, shiftKey, blockInput,
                 rangeKeysDown>>

handleInput(inputValue) ==
  /\ InputBody(inputValue)
  /\ a11yInputHandled' = (IF enabled /\ ~blockInput THEN TRUE ELSE a11yInputHandled)

\* a handler whose change event does not look at a11yInputHandled
handleChangeAlways(inputValue) ==
  /\ InputBody(inputValue)
  /\ a11yInputHandled' = FALSE

handleChange(inputValue) ==
  /\ IF ~a11yInputHandled
       THEN InputBody(inputValue)
       ELSE UNCHANGED <<value, changeOpen, enabledRange, enabled, keyboardStep,
                        shiftKeyboardStep, pageKeyboardStep, roundToStepSize,
                        shiftKey, blockInput, rangeKeysDown>>
  /\ a11yInputHandled' = FALSE

ChangeCalls(inputValue) ==
  IF ~a11yInputHandled THEN InputCalls(inputValue) ELSE <<>>

BlurCalls == IF anyKeysDown(rangeKeysDown) THEN <<"endChange">> ELSE <<>>

handleBlur ==
  /\ changeOpen' = (IF anyKeysDown(rangeKeysDown) THEN FALSE ELSE changeOpen)
  /\ shiftKey' = FALSE
  /\ rangeKeysDown' = {}
  /\ UNCHANGED <<value, enabledRange, enabled, keyboardStep, shiftKeyboardStep,
                 pageKeyboardStep, roundToStepSize, blockInput, a11yInputHandled>>

\* the step-size setters, assertions enabled: a negative step fails the
\* assertion, which throws before the assignment
setKeyboardStep(step) ==
  /\ keyboardStep' = (IF step >= 0 THEN step ELSE keyboardStep)
  /\ UNCHANGED <<shiftKeyboardStep, pageKeyboardStep>>

\* a setter that also rejects a shift step above the keyboard step
setShiftKeyboardStepOrdered(step) ==
  /\ shiftKeyboardStep' =
       (IF step >= 0 /\ step <= keyboardStep THEN step ELSE shiftKeyboardStep)
  /\ UNCHANGED <<keyboardStep, pageKeyboardStep>>

setShiftKeyboardStep(step) ==
  /\ shiftKeyboardStep' = (IF step >= 0 THEN step ELSE shiftKeyboardStep)
  /\ UNCHANGED <<keyboardStep, pageKeyboardStep>>

\* a setter without its assertion
setPageKeyboardStepUnchecked(step) ==
  /\ pageKeyboardStep' = step
  /\ UNCHANGED <<keyboardStep, shiftKeyboardStep>>

setPageKeyboardStep(step) ==
  /\ pageKeyboardStep' = (IF step >= 0 THEN step ELSE pageKeyboardStep)
  /\ UNCHANGED <<keyboardStep, shiftKeyboardStep>>

\* what a setter call records: the assertion that failed, if one did
SetterCalls(step) == IF step >= 0 THEN <<"external">> ELSE <<"assertion">>

\* Util.toFixedNumber( v, 0 ) of getA11yFormattedValue, with the default
\* a11yMapValue (_.identity) and a11yDecimalPlaces (0)
getA11yFormattedValue(v) == RoundSymmetricQuotient(v, 1)

\* enabledRangeObserver sets the min and max attributes
enabledRangeObserver(range) == range

\* valuePropertyListener sets aria-valuetext, aria-valuenow and the input value
valuePropertyListener(v) == getA11yFormattedValue(v)

\* the two properties notify the listeners linked to them of a change
Listeners ==
  /\ ariaValueNow' =
       IF "valuePropertyListener" \in linkedListeners /\ value' # value
         THEN valuePropertyListener(value') ELSE ariaValueNow
  /\ attrRange' =
       IF "enabledRangeObserver" \in linkedListeners /\ enabledRange' # enabledRange
         THEN enabledRangeObserver(enabledRange') ELSE attrRange
  /\ UNCHANGED linkedListeners

\* ------------------------------- events on a node that mixes the handler in

\* the user holds at most MaxKeysDown range keys at once
MayPress(code) ==
  code \in rangeKeysDown \/ Cardinality(rangeKeysDown) < MaxKeysDown

KeyDown(code, shift) ==
  /\ MayPress(code)
  /\ handleKeyDown(code, shift)
  /\ calls' = <<"keydown">> \o KeyDownCalls(code, shift)
  /\ UNCHANGED <<spinnerVars, buttonVars, radioVars, roundVars, widgetVars>>
  /\ Listeners

KeyUp(code) ==
  /\ handleKeyUp(code)
  /\ calls' = <<"keyup">> \o KeyUpCalls(code)
  /\ UNCHANGED <<spinnerVars, buttonVars, radioVars, roundVars, widgetVars>>
  /\ Listeners

Input(inputValue) ==
  /\ handleInput(inputValue)
  /\ calls' = <<"input">> \o InputCalls(inputValue)
  /\ UNCHANGED <<spinnerVars, buttonVars, radioVars, roundVars, widgetVars>>
  /\ Listeners

Change(inputValue) ==
  /\ handleChange(inputValue)
  /\ calls' = <<"change">> \o ChangeCalls(inputValue)
  /\ UNCHANGED <<spinnerVars, buttonVars, radioVars, roundVars, widgetVars>>
  /\ Listeners

Blur ==
  /\ handleBlur
  /\ calls' = <<"blur">> \o BlurCalls
  /\ UNCHANGED <<spinnerVars, buttonVars, radioVars, roundVars, widgetVars>>
  /\ Listeners

SetKeyboardStep(step) ==
  /\ setKeyboardStep(step)
  /\ calls' = SetterCalls(step)
  /\ UNCHANGED <<value, enabledRange, enabled, roundToStepSize, shiftKey,
                 blockInput, a11yInputHandled, rangeKeysDown, changeOpen>>
  /\ UNCHANGED <<spinnerVars, buttonVars, radioVars, roundVars, widgetVars>>
  /\ Listeners

SetShiftKeyboardStep(step) ==
  /\ setShiftKeyboardStep(step)
  /\ calls' = SetterCalls(step)
  /\ UNCHANGED <<value, enabledRange, enabled, roundToStepSize, shiftKey,
                 blockInput, a11yInputHandled, rangeKeysDown, changeOpen>>
  /\ UNCHANGED <<spinnerVars, buttonVars, radioVars, roundVars, widgetVars>>
  /\ Listeners

SetPageKeyboardStep(step) ==
  /\ setPageKeyboardStep(step)
  /\ calls' = SetterCalls(step)
  /\ UNCHANGED <<value, enabledRange, enabled, roundToStepSize, shiftKey,
                 blockInput, a11yInputHandled, rangeKeysDown, changeOpen>>
  /\ UNCHANGED <<spinnerVars, buttonVars, radioVars, roundVars, widgetVars>>
  /\ Listeners

\* the enabled-range property changes: enabledRangeObserver sets the min, max
\* and step attributes of the input and nothing else
SetEnabledRange(range) ==
  /\ range # enabledRange
  /\ enabledRange' = range
  /\ calls' = <<"external">>
  /\ UNCHANGED <<value, enabled, keyboardStep, shiftKeyboardStep,
                 pageKeyboardStep, roundToStepSize, shiftKey, blockInput,
                 a11yInputHandled, rangeKeysDown, changeOpen>>
  /\ UNCHANGED <<spinnerVars, buttonVars, radioVars, roundVars, widgetVars>>
  /\ Listeners

\* the enabled property changes
SetEnabled(b) ==
  /\ b # enabled
  /\ enabled' = b
  /\ calls' = <<"external">>
  /\ UNCHANGED <<value, enabledRange, keyboardStep, shiftKeyboardStep,
                 pageKeyboardStep, roundToStepSize, shiftKey, blockInput,
                 a11yInputHandled, rangeKeysDown, changeOpen>>
  /\ UNCHANGED <<spinnerVars, buttonVars, radioVars, roundVars, widgetVars>>
  /\ Listeners

\* the state initializeAccessibleValueHandler leaves
HandlerInit ==
  /\ enabledRange \in Ranges
  /\ value \in Values
  /\ InEnabledRange(value)
  /\ enabled = TRUE
  /\ keyboardStep \in Steps
  /\ shiftKeyboardStep \in Steps
  /\ pageKeyboardStep \in Steps
  /\ roundToStepSize \in BOOLEAN
  /\ roundToStepSize => keyboardStep # 0
  /\ shiftKey = FALSE
  /\ blockInput = FALSE
  /\ a11yInputHandled = FALSE
  /\ rangeKeysDown = {}
  /\ changeOpen = FALSE
  /\ calls = <<"init">>
  /\ linkedListeners = {"enabledRangeObserver", "valuePropertyListener"}
  /\ attrRange = enabledRangeObserver(enabledRange)
  /\ ariaValueNow = valuePropertyListener(value)

\* one handler, the same in every behaviour
HandlerFixed ==
  /\ enabledRange = [min |-> 0, max |-> MaxValue]
  /\ value = 0
  /\ enabled = TRUE
  /\ keyboardStep = 1
  /\ shiftKeyboardStep = 1
  /\ pageKeyboardStep = 1
  /\ roundToStepSize = FALSE
  /\ shiftKey = FALSE
  /\ blockInput = FALSE
  /\ a11yInputHandled = FALSE
  /\ rangeKeysDown = {}
  /\ changeOpen = FALSE
  /\ calls = <<"init">>
  /\ linkedListeners = {"enabledRangeObserver", "valuePropertyListener"}
  /\ attrRange = enabledRangeObserver(enabledRange)
  /\ ariaValueNow = valuePropertyListener(value)

SpinnerInit ==
  /\ timerRunning = FALSE
  /\ timerCallbacks = {}
  /\ downCallback = NoEvent
  /\ runningTimerCallbackKeyCode = NULL

\* ----------------------------------------------- AccessibleNumberSpinner

\* what emitKeyState emits
EmitKeyStateCalls(code, isDown) ==
  IF code \in {"up", "right"}
    THEN <<IF isDown THEN "incrementDown(true)" ELSE "incrementDown(false)">>
  ELSE IF code \in {"down", "left"}
    THEN <<IF isDown THEN "decrementDown(true)" ELSE "decrementDown(false)">>
  ELSE <<>>

\* accessibleNumberSpinnerHandleKeyDown: handleKeyDown, then emitKeyState
accessibleNumberSpinnerHandleKeyDown(event, first) ==
  /\ handleKeyDown(event.code, event.shift)
  /\ calls' = <<first>> \o KeyDownCalls(event.code, event.shift)
                \o EmitKeyStateCalls(event.code, TRUE)

\* a keydown listener that handles the key also while the timer is running
SpinnerKeyDownWhileRunning(code, shift) ==
  /\ MayPress(code)
  /\ IF enabled /\ isRangeKey(code)
       THEN /\ accessibleNumberSpinnerHandleKeyDown(
                 [code |-> code, shift |-> shift], "keydown")
            /\ IF ~timerRunning
                 THEN /\ downCallback' = [code |-> code, shift |-> shift]
                      /\ runningTimerCallbackKeyCode' = code
                      /\ timerCallbacks' =
                           timerCallbacks \cup {[code |-> code, shift |-> shift]}
                      /\ timerRunning' = TRUE
                 ELSE UNCHANGED spinnerVars
       ELSE /\ calls' = <<"keydown">>
            /\ UNCHANGED <<value, enabledRange, enabled, keyboardStep,
                           shiftKeyboardStep, pageKeyboardStep, roundToStepSize,
                           shiftKey, blockInput, a11yInputHandled, rangeKeysDown,
                           changeOpen>>
            /\ UNCHANGED spinnerVars
  /\ UNCHANGED <<buttonVars, radioVars, roundVars, widgetVars>>
  /\ Listeners

\* accessibleInputListener.keydown
SpinnerKeyDown(code, shift) ==
  /\ MayPress(code)
  /\ IF enabled /\ isRangeKey(code) /\ ~timerRunning
       THEN /\ accessibleNumberSpinnerHandleKeyDown(
                 [code |-> code, shift |-> shift], "keydown")
            /\ downCallback' = [code |-> code, shift |-> shift]
            /\ runningTimerCallbackKeyCode' = code
            /\ timerCallbacks' = timerCallbacks \cup {[code |-> code, shift |-> shift]}
            /\ timerRunning' = TRUE
       ELSE /\ calls' = <<"keydown">>
            /\ UNCHANGED <<value, enabledRange, enabled, keyboardStep,
                           shiftKeyboardStep, pageKeyboardStep, roundToStepSize,
                           shiftKey, blockInput, a11yInputHandled, rangeKeysDown,
                           changeOpen>>
            /\ UNCHANGED spinnerVars
  /\ UNCHANGED <<buttonVars, radioVars, roundVars, widgetVars>>
  /\ Listeners

\* a keyup listener that stops the timer and leaves its callback in place
StopOnKeyUpKeepsCallback(code) ==
  IF code = runningTimerCallbackKeyCode
    THEN /\ timerRunning' = FALSE
         /\ downCallback' = NoEvent
         /\ runningTimerCallbackKeyCode' = NULL
         /\ UNCHANGED timerCallbacks
    ELSE UNCHANGED spinnerVars

\* the keyup listener stops the timer and removes its callback
StopOnKeyUp(code) ==
  IF code = runningTimerCallbackKeyCode
    THEN /\ timerRunning' = FALSE
         /\ timerCallbacks' = timerCallbacks \ {downCallback}
         /\ downCallback' = NoEvent
         /\ runningTimerCallbackKeyCode' = NULL
    ELSE UNCHANGED spinnerVars

\* accessibleInputListener.keyup
SpinnerKeyUp(code) ==
  /\ IF isRangeKey(code)
       THEN /\ StopOnKeyUp(code)
            /\ handleKeyUp(code)
            /\ calls' = <<"keyup">>
                 \o (IF code = runningTimerCallbackKeyCode
                       THEN EmitKeyStateCalls(code, FALSE) ELSE <<>>)
                 \o KeyUpCalls(code)
       ELSE /\ calls' = <<"keyup">>
            /\ UNCHANGED <<value, enabledRange, enabled, keyboardStep,
                           shiftKeyboardStep, pageKeyboardStep, roundToStepSize,
                           shiftKey, blockInput, a11yInputHandled, rangeKeysDown,
                           changeOpen>>
            /\ UNCHANGED spinnerVars
  /\ UNCHANGED <<buttonVars, radioVars, roundVars, widgetVars>>
  /\ Listeners

\* the blur listener stops the timer and removes its callback
StopOnBlur ==
  IF downCallback # NoEvent
    THEN /\ timerRunning' = FALSE
         /\ timerCallbacks' = timerCallbacks \ {downCallback}
         /\ UNCHANGED <<downCallback, runningTimerCallbackKeyCode>>
    ELSE UNCHANGED spinnerVars

\* accessibleInputListener.blur
SpinnerBlur ==
  /\ StopOnBlur
  /\ handleBlur
  /\ calls' = <<"blur">>
       \o (IF downCallback # NoEvent
             THEN EmitKeyStateCalls(runningTimerCallbackKeyCode, FALSE) ELSE <<>>)
       \o BlurCalls
  /\ UNCHANGED <<buttonVars, radioVars, roundVars, widgetVars>>
  /\ Listeners

\* the running timer fires (after its delay, then at each interval) and calls
\* its callbacks
TimerFire ==
  /\ timerRunning
  /\ \E cb \in timerCallbacks :
       /\ timerCallbacks = {cb}
       /\ accessibleNumberSpinnerHandleKeyDown(cb, "timer")
  /\ UNCHANGED <<spinnerVars, buttonVars, radioVars, roundVars, widgetVars>>
  /\ Listeners

\* ---------------------------------------------------------------- buttons

Kinds == {"push", "momentary", "toggle", "sticky"}

\* the DerivedProperty of each kind of button, from the values of its
\* dependencies
InteractionStates(o, d, e, lp, sv) ==
  [k \in Kinds |->
     IF k = "push" THEN PushButtonInteractionState(o[k], d[k], e[k])
     ELSE IF k = "momentary" THEN MomentaryButtonInteractionState(o[k], d[k], e[k])
     ELSE IF k = "toggle" THEN ToggleButtonInteractionState(o[k], lp, e[k])
     ELSE StickyToggleButtonInteractionState(o[k], d[k], e[k], sv = "valueB")]

ButtonsInit ==
  /\ over = [k \in Kinds |-> FALSE]
  /\ down = [k \in Kinds |-> FALSE]
  /\ buttonEnabled = [k \in Kinds |-> TRUE]
  /\ looksPressed = FALSE
  /\ stickyValue = "valueA"
  /\ interactionState =
       InteractionStates(over, down, buttonEnabled, looksPressed, stickyValue)

\* derived properties that do not list the value property as a dependency
RecomputeMissingDependency ==
  interactionState' =
    IF stickyValue' # stickyValue
      THEN interactionState
      ELSE InteractionStates(over', down', buttonEnabled', looksPressed', stickyValue')

\* a dependency changed: the derived properties are recomputed
Recompute ==
  interactionState' =
    InteractionStates(over', down', buttonEnabled', looksPressed', stickyValue')

SetOver(k, b) ==
  /\ b # over[k]
  /\ over' = [over EXCEPT ![k] = b]
  /\ UNCHANGED <<down, buttonEnabled, looksPressed, stickyValue>>
  /\ Recompute
  /\ UNCHANGED <<handlerVars, spinnerVars, radioVars, roundVars, attrVars, widgetVars>>

SetDown(k, b) ==
  /\ b # down[k]
  /\ down' = [down EXCEPT ![k] = b]
  /\ UNCHANGED <<over, buttonEnabled, looksPressed, stickyValue>>
  /\ Recompute
  /\ UNCHANGED <<handlerVars, spinnerVars, radioVars, roundVars, attrVars, widgetVars>>

SetButtonEnabled(k, b) ==
  /\ b # buttonEnabled[k]
  /\ buttonEnabled' = [buttonEnabled EXCEPT ![k] = b]
  /\ UNCHANGED <<over, down, looksPressed, stickyValue>>
  /\ Recompute
  /\ UNCHANGED <<handlerVars, spinnerVars, radioVars, roundVars, attrVars, widgetVars>>

SetLooksPressed(b) ==
  /\ b # looksPressed
  /\ looksPressed' = b
  /\ UNCHANGED <<over, down, buttonEnabled, stickyValue>>
  /\ Recompute
  /\ UNCHANGED <<handlerVars, spinnerVars, radioVars, roundVars, attrVars, widgetVars>>

SetStickyValue(v) ==
  /\ v # stickyValue
  /\ stickyValue' = v
  /\ UNCHANGED <<over, down, buttonEnabled, looksPressed>>
  /\ Recompute
  /\ UNCHANGED <<handlerVars, spinnerVars, radioVars, roundVars, attrVars, widgetVars>>

\* ------------------------------------------------------ radio button group

Members == 1..NumMembers
\* the value of member m; the values of a group are distinct
MemberValue(m) == m
\* the values the shared property can hold: the members' values, and 0, the
\* value of no member
PropertyValues == 0..NumMembers

\* accessibleCheckedListener of member m
accessibleCheckedListener(m, newValue) == newValue = MemberValue(m)

\* a set that calls the listeners with the old value
PropertySetNotifiesOldValue(newValue) ==
  /\ property' = newValue
  /\ accessibleChecked' =
       IF newValue # property
         THEN [m \in Members |-> property = MemberValue(m)]
         ELSE accessibleChecked

\* a set that checks the member of the new value and unchecks no member
PropertySetNeverClears(newValue) ==
  /\ property' = newValue
  /\ accessibleChecked' =
       [m \in Members |->
          accessibleCheckedListener(m, newValue) \/ accessibleChecked[m]]

\* Property.set: the listeners are called when the value changes
PropertySet(newValue) ==
  /\ property' = newValue
  /\ accessibleChecked' =
       IF newValue # property
         THEN [m \in Members |-> accessibleCheckedListener(m, newValue)]
         ELSE accessibleChecked

\* the group as constructed: the property holds the value of one member, link
\* has called every member's listener, every button model is enabled, up and
\* not over
RadioInit ==
  /\ property \in {MemberValue(m) : m \in Members}
  /\ memberOver = [m \in Members |-> FALSE]
  /\ memberDown = [m \in Members |-> FALSE]
  /\ memberEnabled = [m \in Members |-> TRUE]
  /\ accessibleChecked = [m \in Members |-> accessibleCheckedListener(m, property)]
  /\ fired = [member |-> 0, emitted |-> FALSE]

\* RadioButtonGroupMember.fire, but for the frame
fire(m) ==
  /\ IF memberEnabled[m]
       THEN PropertySet(MemberValue(m))
       ELSE UNCHANGED <<property, accessibleChecked>>
  /\ fired' = [member |-> m, emitted |-> memberEnabled[m]]

\* fire() called from the accessibility tree
Fire(m) ==
  /\ fire(m)
  /\ UNCHANGED <<memberOver, memberDown, memberEnabled>>
  /\ UNCHANGED <<handlerVars, spinnerVars, buttonVars, roundVars, attrVars, widgetVars>>

\* the down property of a member's button model changes: released over the
\* button, the member fires
SetMemberDown(m, b) ==
  /\ b # memberDown[m]
  /\ memberDown' = [memberDown EXCEPT ![m] = b]
  /\ IF ~b /\ memberOver[m]
       THEN fire(m)
       ELSE /\ fired' = [member |-> 0, emitted |-> FALSE]
            /\ UNCHANGED <<property, accessibleChecked>>
  /\ UNCHANGED <<memberOver, memberEnabled>>
  /\ UNCHANGED <<handlerVars, spinnerVars, buttonVars, roundVars, attrVars, widgetVars>>

\* the over property of a member's button model changes
SetMemberOver(m, b) ==
  /\ b # memberOver[m]
  /\ memberOver' = [memberOver EXCEPT ![m] = b]
  /\ fired' = [member |-> 0, emitted |-> FALSE]
  /\ UNCHANGED <<property, accessibleChecked, memberDown, memberEnabled>>
  /\ UNCHANGED <<handlerVars, spinnerVars, buttonVars, roundVars, attrVars, widgetVars>>

\* the enabled property of a member's button model changes
SetMemberEnabled(m, b) ==
  /\ b # memberEnabled[m]
  /\ memberEnabled' = [memberEnabled EXCEPT ![m] = b]
  /\ fired' = [member |-> 0, emitted |-> FALSE]
  /\ UNCHANGED <<property, accessibleChecked, memberOver, memberDown>>
  /\ UNCHANGED <<handlerVars, spinnerVars, buttonVars, roundVars, attrVars, widgetVars>>

\* the shared property is set from outside the group
SetProperty(v) ==
  /\ v # property
  /\ PropertySet(v)
  /\ fired' = [member |-> 0, emitted |-> FALSE]
  /\ UNCHANGED <<memberOver, memberDown, memberEnabled>>
  /\ UNCHANGED <<handlerVars, spinnerVars, buttonVars, roundVars, attrVars, widgetVars>>

\* ------------------------------------------------- roundValue on its own

RoundArgs == (0 - MaxRound)..MaxRound

RoundInit ==
  /\ rNewValue \in RoundArgs
  /\ rCurrentValue \in RoundArgs
  /\ rStepSize \in 0..MaxRoundStep
  /\ rOnce = 0
  /\ rTwice = 0
  /\ rPhase = "drawn"

RoundFixed ==
  /\ rNewValue = 0
  /\ rCurrentValue = 0
  /\ rStepSize = 0
  /\ rOnce = 0
  /\ rTwice = 0
  /\ rPhase = "drawn"

RoundOnce ==
  /\ rPhase = "drawn"
  /\ rOnce' = roundValue(rNewValue, rCurrentValue, rStepSize)
  /\ rPhase' = "once"
  /\ UNCHANGED <<rNewValue, rCurrentValue, rStepSize, rTwice>>
  /\ UNCHANGED <<handlerVars, spinnerVars, buttonVars, radioVars, attrVars, widgetVars>>

RoundTwice ==
  /\ rPhase = "once"
  /\ rTwice' = roundValue(rOnce, rCurrentValue, rStepSize)
  /\ rPhase' = "twice"
  /\ UNCHANGED <<rNewValue, rCurrentValue, rStepSize, rOnce>>
  /\ UNCHANGED <<handlerVars, spinnerVars, buttonVars, radioVars, attrVars, widgetVars>>

\* ------------------------------------------ disposal of the value handler

\* the value property is set from outside the node
SetValueProperty(v) ==
  /\ v # value
  /\ value' = v
  /\ calls' = <<"external">>
  /\ UNCHANGED <<enabledRange, enabled, keyboardStep, shiftKeyboardStep,
                 pageKeyboardStep, roundToStepSize, shiftKey, blockInput,
                 a11yInputHandled, rangeKeysDown, changeOpen>>
  /\ UNCHANGED <<spinnerVars, buttonVars, radioVars, roundVars, widgetVars>>
  /\ Listeners

\* a disposal that leaves valuePropertyListener linked
disposeKeepsValueListener == linkedListeners \ {"enabledRangeObserver"}

\* _disposeAccessibleValueHandler: the listeners left linked
disposeAccessibleValueHandler == {}

DisposeHandler ==
  /\ linkedListeners # {}
  /\ linkedListeners' = disposeAccessibleValueHandler
  /\ calls' = <<"external">>
  /\ UNCHANGED <<ariaValueNow, attrRange>>
  /\ UNCHANGED <<value, enabledRange, enabled, keyboardStep, shiftKeyboardStep,
                 pageKeyboardStep, roundToStepSize, shiftKey, blockInput,
                 a11yInputHandled, rangeKeysDown, changeOpen>>
  /\ UNCHANGED <<spinnerVars, buttonVars, radioVars, roundVars, widgetVars>>

\* --------------------------------------------------- MomentaryButtonModel

MomentaryValues == {"valueOff", "valueOn"}

\* the model as constructed: link has called valuePropertyListener, which
\* set downProperty; the button model is enabled
MomentaryInit ==
  /\ mValue \in MomentaryValues
  /\ mDown = (mValue = "valueOn")
  /\ mEnabled = TRUE
  /\ mLinked = {"downListener", "valuePropertyListener"}
  /\ mCalls = <<"init">>

\* a listener that turns the button on whether enabled or not
downListenerIgnoresEnabled(d, v) == IF d THEN "valueOn" ELSE "valueOff"

\* the value downListener leaves in valueProperty, which holds v
downListener(d, v) ==
  IF d THEN (IF mEnabled THEN "valueOn" ELSE v) ELSE "valueOff"

\* downProperty changes to b: downListener sets valueProperty, whose
\* listener sets downProperty to ( value === valueOn )
MomentarySetDown(b) ==
  /\ b # mDown
  /\ LET v == IF "downListener" \in mLinked THEN downListener(b, mValue)
              ELSE mValue
     IN /\ mValue' = v
        /\ mDown' = IF "valuePropertyListener" \in mLinked /\ v # mValue
                       THEN (v = "valueOn") ELSE b
  /\ mCalls' = <<"down">>
       \o (IF "downListener" \in mLinked /\ (mEnabled \/ ~b)
             THEN <<"set">> ELSE <<>>)
  /\ UNCHANGED <<mEnabled, mLinked, cbProperty, cbEnabled, cbCalls, cbBefore>>
  /\ UNCHANGED <<handlerVars, spinnerVars, buttonVars, radioVars, roundVars, attrVars>>

\* valueProperty is set from outside to v: valuePropertyListener sets
\* downProperty, whose listener sets valueProperty
MomentarySetValue(v) ==
  /\ v # mValue
  /\ LET d == IF "valuePropertyListener" \in mLinked THEN (v = "valueOn")
              ELSE mDown
     IN /\ mDown' = d
        /\ mValue' = IF "downListener" \in mLinked /\ d # mDown
                        THEN downListener(d, v) ELSE v
  /\ mCalls' = <<"value">>
       \o (IF /\ mLinked = {"downListener", "valuePropertyListener"}
              /\ (v = "valueOn") # mDown
              /\ (mEnabled \/ v # "valueOn")
             THEN <<"set">> ELSE <<>>)
  /\ UNCHANGED <<mEnabled, mLinked, cbProperty, cbEnabled, cbCalls, cbBefore>>
  /\ UNCHANGED <<handlerVars, spinnerVars, buttonVars, radioVars, roundVars, attrVars>>

MomentarySetEnabled(b) ==
  /\ b # mEnabled
  /\ mEnabled' = b
  /\ mCalls' = <<"enabled">>
  /\ UNCHANGED <<mDown, mValue, mLinked, cbProperty, cbEnabled, cbCalls, cbBefore>>
  /\ UNCHANGED <<handlerVars, spinnerVars, buttonVars, radioVars, roundVars, attrVars>>

\* disposeMomentaryButtonModel: the listeners left linked
disposeMomentaryButtonModel == {}

MomentaryDispose ==
  /\ mLinked # {}
  /\ mLinked' = disposeMomentaryButtonModel
  /\ mCalls' = <<"dispose">>
  /\ UNCHANGED <<mDown, mEnabled, mValue, cbProperty, cbEnabled, cbCalls, cbBefore>>
  /\ UNCHANGED <<handlerVars, spinnerVars, buttonVars, radioVars, roundVars, attrVars>>

\* --------------------------------------------------------------- Checkbox

\* the checkbox as constructed, with the default sound players
CheckboxInit ==
  /\ cbProperty \in BOOLEAN
  /\ cbEnabled = TRUE
  /\ cbCalls = <<"init">>
  /\ cbBefore = cbProperty

\* a listener that plays the sound of the value before the toggle
CheckboxSoundOfOldValue(newValue) ==
  IF newValue THEN "uncheckedSound" ELSE "checkedSound"

\* the sound player the fire listener plays for the new value
CheckboxSound(newValue) ==
  IF newValue THEN "checkedSound" ELSE "uncheckedSound"

\* checkboxButtonListener.fire
CheckboxFire ==
  /\ IF cbEnabled
       THEN LET newValue == ~cbProperty
            IN /\ cbProperty' = newValue
               /\ cbCalls' = <<"fire", "toggle", CheckboxSound(newValue)>>
       ELSE /\ cbCalls' = <<"fire">>
            /\ UNCHANGED cbProperty
  /\ cbBefore' = cbProperty
  /\ UNCHANGED <<cbEnabled, mDown, mEnabled, mValue, mLinked, mCalls>>
  /\ UNCHANGED <<handlerVars, spinnerVars, buttonVars, radioVars, roundVars, attrVars>>

CheckboxSetEnabled(b) ==
  /\ b # cbEnabled
  /\ cbEnabled' = b
  /\ cbCalls' = <<"external">>
  /\ cbBefore' = cbProperty
  /\ UNCHANGED <<cbProperty, mDown, mEnabled, mValue, mLinked, mCalls>>
  /\ UNCHANGED <<handlerVars, spinnerVars, buttonVars, radioVars, roundVars, attrVars>>

\* the client sets the property
CheckboxSetProperty(b) ==
  /\ b # cbProperty
  /\ cbProperty' = b
  /\ cbCalls' = <<"external">>
  /\ cbBefore' = cbProperty
  /\ UNCHANGED <<cbEnabled, mDown, mEnabled, mValue, mLinked, mCalls>>
  /\ UNCHANGED <<handlerVars, spinnerVars, buttonVars, radioVars, roundVars, attrVars>>

\* one momentary button and one checkbox, the same in every behaviour
WidgetsFixed ==
  /\ MomentaryInit /\ mValue = "valueOff"
  /\ CheckboxInit /\ cbProperty = FALSE

\* ---------------------------------------------------------- specifications

\* a node that mixes AccessibleValueHandler in and binds its five handlers; its
\* step sizes and ranges change; the user holds one range key at a time
Init ==
  /\ HandlerInit
  /\ SpinnerInit
  /\ ButtonsInit
  /\ WidgetsFixed
  /\ RadioInit /\ property = MemberValue(1)
  /\ RoundFixed

Next ==
  \/ \E code \in Keys, shift \in BOOLEAN :
       rangeKeysDown \subseteq {code} /\ KeyDown(code, shift)
  \/ \E code \in Keys : KeyUp(code)
  \/ \E inputValue \in Values : Input(inputValue)
  \/ \E inputValue \in Values : Change(inputValue)
  \/ Blur
  \/ \E step \in Steps : SetKeyboardStep(step)
  \/ \E step \in Steps : SetShiftKeyboardStep(step)
  \/ \E step \in Steps : SetPageKeyboardStep(step)
  \/ \E range \in Ranges : SetEnabledRange(range)
  \/ \E b \in BOOLEAN : SetEnabled(b)

Spec == Init /\ [][Next]_vars

\* a node that mixes AccessibleNumberSpinner in
InitSpinner ==
  /\ HandlerFixed
  /\ SpinnerInit
  /\ ButtonsInit
  /\ WidgetsFixed
  /\ RadioInit /\ property = MemberValue(1)
  /\ RoundFixed

NextSpinner ==
  \/ \E code \in Keys, shift \in BOOLEAN : SpinnerKeyDown(code, shift)
  \/ \E code \in Keys : SpinnerKeyUp(code)
  \/ SpinnerBlur
  \/ TimerFire
  \/ \E inputValue \in Values : Input(inputValue)
  \/ \E inputValue \in Values : Change(inputValue)
  \/ \E b \in BOOLEAN : SetEnabled(b)

SpecSpinner == InitSpinner /\ [][NextSpinner]_vars

\* the four kinds of button
InitButtons ==
  /\ HandlerFixed
  /\ SpinnerInit
  /\ ButtonsInit
  /\ WidgetsFixed
  /\ RadioInit /\ property = MemberValue(1)
  /\ RoundFixed

NextButtons ==
  \/ \E k \in Kinds, b \in BOOLEAN : SetOver(k, b)
  \/ \E k \in Kinds, b \in BOOLEAN : SetDown(k, b)
  \/ \E k \in Kinds, b \in BOOLEAN : SetButtonEnabled(k, b)
  \/ \E b \in BOOLEAN : SetLooksPressed(b)
  \/ \E v \in {"valueA", "valueB"} : SetStickyValue(v)

SpecButtons == InitButtons /\ [][NextButtons]_vars

\* a group of radio buttons
InitRadio ==
  /\ HandlerFixed
  /\ SpinnerInit
  /\ ButtonsInit
  /\ WidgetsFixed
  /\ RadioInit
  /\ RoundFixed

NextRadio ==
  \/ \E m \in Members : Fire(m)
  \/ \E m \in Members, b \in BOOLEAN : SetMemberDown(m, b)
  \/ \E m \in Members, b \in BOOLEAN : SetMemberOver(m, b)
  \/ \E m \in Members, b \in BOOLEAN : SetMemberEnabled(m, b)
  \/ \E v \in PropertyValues : SetProperty(v)

SpecRadio == InitRadio /\ [][NextRadio]_vars

\* roundValue applied once and twice to drawn arguments
InitRound ==
  /\ HandlerFixed
  /\ SpinnerInit
  /\ ButtonsInit
  /\ WidgetsFixed
  /\ RadioInit /\ property = MemberValue(1)
  /\ RoundInit

NextRound == RoundOnce \/ RoundTwice

SpecRound == InitRound /\ [][NextRound]_vars

\* the step sizes of a handler, set with any argument
InitSteps ==
  /\ HandlerInit
  /\ SpinnerInit
  /\ ButtonsInit
  /\ WidgetsFixed
  /\ RadioInit /\ property = MemberValue(1)
  /\ RoundFixed

NextSteps ==
  \/ \E step \in StepArgs : SetKeyboardStep(step)
  \/ \E step \in StepArgs : SetShiftKeyboardStep(step)
  \/ \E step \in StepArgs : SetPageKeyboardStep(step)

SpecSteps == InitSteps /\ [][NextSteps]_vars

\* a handler that rounds to its step size, on wider ranges and steps
HandlerRounding ==
  /\ enabledRange \in KeyRanges
  /\ value \in KeyValues
  /\ InEnabledRange(value)
  /\ enabled = TRUE
  /\ keyboardStep \in KeySteps \ {0}
  /\ shiftKeyboardStep \in KeySteps
  /\ pageKeyboardStep = 1
  /\ roundToStepSize = TRUE
  /\ shiftKey = FALSE
  /\ blockInput = FALSE
  /\ a11yInputHandled = FALSE
  /\ rangeKeysDown = {}
  /\ changeOpen = FALSE
  /\ calls = <<"init">>
  /\ linkedListeners = {"enabledRangeObserver", "valuePropertyListener"}
  /\ attrRange = enabledRangeObserver(enabledRange)
  /\ ariaValueNow = valuePropertyListener(value)

InitKeys ==
  /\ HandlerRounding
  /\ SpinnerInit
  /\ ButtonsInit
  /\ WidgetsFixed
  /\ RadioInit /\ property = MemberValue(1)
  /\ RoundFixed

NextKeys ==
  \/ \E code \in Keys, shift \in BOOLEAN :
       rangeKeysDown \subseteq {code} /\ KeyDown(code, shift)
  \/ \E code \in Keys : KeyUp(code)
  \/ Blur

SpecKeys == InitKeys /\ [][NextKeys]_vars

\* an enabled handler whose user holds several range keys at once
InitDrag ==
  /\ HandlerFixed
  /\ SpinnerInit
  /\ ButtonsInit
  /\ WidgetsFixed
  /\ RadioInit /\ property = MemberValue(1)
  /\ RoundFixed

NextDrag ==
  \/ \E code \in Keys, shift \in BOOLEAN : KeyDown(code, shift)
  \/ \E code \in Keys : KeyUp(code)
  \/ Blur

SpecDrag == InitDrag /\ [][NextDrag]_vars

\* a momentary button and a checkbox
InitModels ==
  /\ HandlerFixed
  /\ SpinnerInit
  /\ ButtonsInit
  /\ MomentaryInit
  /\ CheckboxInit
  /\ RadioInit /\ property = MemberValue(1)
  /\ RoundFixed

NextModels ==
  \/ \E b \in BOOLEAN : MomentarySetDown(b)
  \/ \E v \in MomentaryValues : MomentarySetValue(v)
  \/ \E b \in BOOLEAN : MomentarySetEnabled(b)
  \/ CheckboxFire
  \/ \E b \in BOOLEAN : CheckboxSetEnabled(b)
  \/ \E b \in BOOLEAN : CheckboxSetProperty(b)

SpecModels == InitModels /\ [][NextModels]_vars

\* a value handler and a momentary button model that are disposed of while
\* the properties they were linked to go on changing
InitDispose ==
  /\ HandlerFixed
  /\ SpinnerInit
  /\ ButtonsInit
  /\ MomentaryInit
  /\ CheckboxInit /\ cbProperty = FALSE
  /\ RadioInit /\ property = MemberValue(1)
  /\ RoundFixed

NextDispose ==
  \/ \E v \in Values : SetValueProperty(v)
  \/ \E range \in Ranges : SetEnabledRange(range)
  \/ DisposeHandler
  \/ \E b \in BOOLEAN : MomentarySetDown(b)
  \/ \E v \in MomentaryValues : MomentarySetValue(v)
  \/ \E b \in BOOLEAN : MomentarySetEnabled(b)
  \/ MomentaryDispose

SpecDispose == InitDispose /\ [][NextDispose]_vars

\* an enabled handler that assistive technology drives by input and change
\* events only: it never receives a keydown
HandlerAssistive ==
  /\ enabledRange \in KeyRanges
  /\ value \in KeyValues
  /\ InEnabledRange(value)
  /\ enabled = TRUE
  /\ keyboardStep \in KeySteps
  /\ shiftKeyboardStep \in KeySteps
  /\ pageKeyboardStep = 1
  /\ roundToStepSize = FALSE
  /\ shiftKey = FALSE
  /\ blockInput = FALSE
  /\ a11yInputHandled = FALSE
  /\ rangeKeysDown = {}
  /\ changeOpen = FALSE
  /\ calls = <<"init">>
  /\ linkedListeners = {"enabledRangeObserver", "valuePropertyListener"}
  /\ attrRange = enabledRangeObserver(enabledRange)
  /\ ariaValueNow = valuePropertyListener(value)

InitAssistive ==
  /\ HandlerAssistive
  /\ SpinnerInit
  /\ ButtonsInit
  /\ WidgetsFixed
  /\ RadioInit /\ property = MemberValue(1)
  /\ RoundFixed

NextAssistive ==
  \/ \E inputValue \in KeyValues : Input(inputValue)
  \/ \E inputValue \in KeyValues : Change(inputValue)

SpecAssistive == InitAssistive /\ [][NextAssistive]_vars

\* a handler that receives key events as well as input and change events,
\* enabled or not
InitBlock ==
  /\ HandlerFixed
  /\ SpinnerInit
  /\ ButtonsInit
  /\ WidgetsFixed
  /\ RadioInit /\ property = MemberValue(1)
  /\ RoundFixed

NextBlock ==
  \/ \E code \in Keys, shift \in BOOLEAN : KeyDown(code, shift)
  \/ \E code \in Keys : KeyUp(code)
  \/ Blur
  \/ \E inputValue \in Values : Input(inputValue)
  \/ \E inputValue \in Values : Change(inputValue)
  \/ \E b \in BOOLEAN : SetEnabled(b)

SpecBlock == InitBlock /\ [][NextBlock]_vars

\* ------------------------------------------------------------------ claims

Called(name) == \E i \in DOMAIN calls : calls[i] = name

\* the state of a button by the precedence disabled > pressed > over > idle
Precedence(o, pressed, e) ==
  IF ~e THEN "disabled"
  ELSE IF pressed THEN "pressed"
  ELSE IF o THEN "over"
  ELSE "idle"

Checked == {m \in Members : accessibleChecked[m]}

\* C1: a keydown of a range key (increase or decrease) that handleKeyDown
\* handles commits a value that lies in the enabled range.
C1_KeyDownStaysInRange ==
  (calls[1] = "keydown" /\ Called("set")) => InEnabledRange(value)

\* C1 witness: Up Arrow was handled at the top of the range with a positive
\* step: the sum was clamped to max.
C1_Witness ==
  /\ calls[1] = "keydown"
  /\ Called("attemptedIncrease")
  /\ "up" \in rangeKeysDown
  /\ ~shiftKey
  /\ keyboardStep > 0
  /\ value = enabledRange.max
  /\ enabledRange.min < enabledRange.max

\* C2 as stated: in every reachable state the value lies in the enabled range.
C2_ValueAlwaysInRange == InEnabledRange(value)

\* C2 amended: every value an event commits lies in the enabled range, and a
\* step that leaves the enabled range as it is never takes the value out of
\* it: only a change of the enabled range can leave the value outside.
C2_OnlyRangeChangeLeavesRange ==
  /\ [](Called("set") => InEnabledRange(value))
  /\ [][(InEnabledRange(value) /\ enabledRange' = enabledRange)
          => InEnabledRange(value)']_vars

\* C2 witness: an input event stepped the value down to the lower end of a
\* range that does not start at 0.
C2_Witness ==
  /\ calls[1] = "input"
  /\ Called("attemptedDecrease")
  /\ enabledRange.min > 0
  /\ value = enabledRange.min

\* C3 as stated: the push button's state follows the precedence
\* disabled > pressed > over > idle with "pressed" standing for down.
C3_PushPrecedence ==
  interactionState["push"] =
    Precedence(over["push"], down["push"], buttonEnabled["push"])

\* C3 amended: the push button is disabled when not enabled, otherwise pressed
\* when over and down, over when over and not down, and idle when not over,
\* down or not.
C3_PushTable ==
  LET o == over["push"]
      d == down["push"]
      e == buttonEnabled["push"]
      st == interactionState["push"]
  IN /\ (~e) => st = "disabled"
     /\ (e /\ o /\ d) => st = "pressed"
     /\ (e /\ o /\ ~d) => st = "over"
     /\ (e /\ ~o) => st = "idle"

\* C3 witness: the push button is enabled and down, the pointer is not over
\* it, and it is idle.
C3_Witness ==
  /\ buttonEnabled["push"] /\ down["push"] /\ ~over["push"]
  /\ interactionState["push"] = "idle"

\* C4: the momentary button (on down) and the toggle button (on looksPressed)
\* follow the precedence disabled > pressed > over > idle.
C4_MomentaryTogglePrecedence ==
  /\ interactionState["momentary"] =
       Precedence(over["momentary"], down["momentary"], buttonEnabled["momentary"])
  /\ interactionState["toggle"] =
       Precedence(over["toggle"], looksPressed, buttonEnabled["toggle"])

\* C4 witness: both buttons are pressed while the pointer is not over them.
C4_Witness ==
  /\ buttonEnabled["momentary"] /\ down["momentary"] /\ ~over["momentary"]
  /\ interactionState["momentary"] = "pressed"
  /\ buttonEnabled["toggle"] /\ looksPressed /\ ~over["toggle"]
  /\ interactionState["toggle"] = "pressed"

\* C5 as stated: every interaction state is one of idle, over, pressed,
\* disabled and is the function of the current inputs.
C5_FourStates ==
  /\ \A k \in Kinds : interactionState[k] \in {"idle", "over", "pressed", "disabled"}
  /\ interactionState =
       InteractionStates(over, down, buttonEnabled, looksPressed, stickyValue)

\* C5 amended: the push, momentary and toggle states are one of idle, over,
\* pressed, disabled; the sticky toggle state is one of these or
\* disabled-pressed; each is the function of the current inputs.
C5_FourStatesAndStickyFive ==
  /\ \A k \in Kinds \ {"sticky"} :
       interactionState[k] \in {"idle", "over", "pressed", "disabled"}
  /\ interactionState["sticky"] \in
       {"idle", "over", "pressed", "disabled", "disabled-pressed"}
  /\ interactionState =
       InteractionStates(over, down, buttonEnabled, looksPressed, stickyValue)

\* C5 witness: the sticky toggle button is disabled with its property at
\* value B.
C5_Witness ==
  /\ ~buttonEnabled["sticky"]
  /\ stickyValue = "valueB"
  /\ interactionState["sticky"] = "disabled-pressed"

C7_FireSelects ==
  fired.emitted =>
    /\ property = MemberValue(fired.member)
    /\ \A m \in Members : accessibleChecked[m] <=> (m = fired.member)

\* C7 witness: member 2 fired by a release over it while member 1 was the
\* selection of the group as constructed or later.
C7_Witness ==
  /\ fired.emitted /\ fired.member = 2
  /\ ~memberDown[2] /\ memberOver[2]
  /\ Checked = {2}

C9_ReleaseOrBlurStopsRepeat ==
  /\ [][(/\ runningTimerCallbackKeyCode # NULL
         /\ SpinnerKeyUp(runningTimerCallbackKeyCode))
          => (~timerRunning' /\ timerCallbacks' = {})]_vars
  /\ [][(downCallback # NoEvent /\ SpinnerBlur)
          => (~timerRunning' /\ timerCallbacks' = {})]_vars
  /\ [][(~timerRunning /\ calls'[1] # "keydown")
          => (~timerRunning' /\ calls'[1] # "timer")]_vars

\* C9 witness: the Up or Right Arrow that started the timer was released.
C9_Witness ==
  /\ calls[1] = "keyup"
  /\ Called("incrementDown(false)")
  /\ ~timerRunning
  /\ timerCallbacks = {}

\* C10: when a keyboard interaction is open, the keyup of the last range key
\* down, and a blur, call endChange and close it.
C10_ReleaseEndsChange ==
  /\ [][(/\ changeOpen
         /\ \E code \in RangeKeys : rangeKeysDown = {code} /\ KeyUp(code))
          => (Called("endChange")' /\ ~changeOpen')]_vars
  /\ [][(changeOpen /\ rangeKeysDown # {} /\ Blur)
          => (Called("endChange")' /\ ~changeOpen')]_vars

MappedValue(code, shift) ==
  LET lo == enabledRange.min
      hi == enabledRange.max
  IN CASE code \in {"up", "right"} /\ ~shift -> Clamp(value + keyboardStep, lo, hi)
       [] code \in {"down", "left"} /\ ~shift -> Clamp(value - keyboardStep, lo, hi)
       [] code \in {"up", "right"} /\ shift -> Clamp(value + shiftKeyboardStep, lo, hi)
       [] code \in {"down", "left"} /\ shift -> Clamp(value - shiftKeyboardStep, lo, hi)
       [] code = "pageUp" -> Clamp(value + pageKeyboardStep, lo, hi)
       [] code = "pageDown" -> Clamp(value - pageKeyboardStep, lo, hi)
       [] code = "home" -> lo
       [] code = "end" -> hi

\* C12: on an enabled handler that does not round, the keydown of a range key
\* commits constrainValue of the value the key mapping gives: the keyboard
\* step for the arrows, the shift step for the arrows with Shift, the page
\* step for Page Up and Page Down with or without Shift, each clamped to the
\* enabled range, and the ends of the range for Home and End.
C12_KeyMapping ==
  [][\A code \in RangeKeys, shift \in BOOLEAN :
       (enabled /\ ~roundToStepSize /\ KeyDown(code, shift))
         => value' = constrainValue(MappedValue(code, shift))]_vars

\* C12 witness: Page Up with Shift held took the page step, not the smaller
\* shift step, from the lower to the upper end of the range.
C12_Witness ==
  /\ calls[1] = "keydown" /\ Called("set")
  /\ rangeKeysDown = {"pageUp"}
  /\ shiftKey
  /\ ~roundToStepSize
  /\ shiftKeyboardStep < pageKeyboardStep
  /\ enabledRange.min < enabledRange.max
  /\ value = enabledRange.max

\* a call of one of the three setters with this step
SetterCall(step) ==
  SetKeyboardStep(step) \/ SetShiftKeyboardStep(step) \/ SetPageKeyboardStep(step)

\* C13: after initialization and after every sequence of setter calls the
\* three step sizes are >= 0; a call with a negative step fails its
\* assertion and leaves the three step sizes as they were.
C13_StepsNonNegative ==
  /\ [](keyboardStep >= 0 /\ shiftKeyboardStep >= 0 /\ pageKeyboardStep >= 0)
  /\ [][\A step \in StepArgs :
          (step < 0 /\ SetterCall(step))
            => /\ calls' = <<"assertion">>
               /\ UNCHANGED <<keyboardStep, shiftKeyboardStep,
                              pageKeyboardStep>>]_vars

\* C13 witness: a setter called with a negative step failed its assertion
\* on a handler with a positive step size.
C13_Witness ==
  /\ calls = <<"assertion">>
  /\ pageKeyboardStep > 0

\* C14 as stated: in every reachable state the step sizes are ordered
\* shiftKeyboardStep <= keyboardStep <= pageKeyboardStep.
C14_StepsMonotonic ==
  shiftKeyboardStep <= keyboardStep /\ keyboardStep <= pageKeyboardStep

\* C14 amended: a setter called with a step >= 0 stores it, whatever the
\* other two step sizes are: the step sizes are checked for their sign only.
C14_AnyOrderAccepted ==
  [][\A step \in StepArgs :
       step >= 0 =>
         /\ SetKeyboardStep(step)
              => (keyboardStep' = step /\ calls' = <<"external">>)
         /\ SetShiftKeyboardStep(step)
              => (shiftKeyboardStep' = step /\ calls' = <<"external">>)
         /\ SetPageKeyboardStep(step)
              => (pageKeyboardStep' = step /\ calls' = <<"external">>)]_vars

\* C14 witness: after a setter call that was accepted the shift step is
\* above the keyboard step and above the page step.
C14_Witness ==
  /\ calls = <<"external">>
  /\ shiftKeyboardStep > keyboardStep
  /\ shiftKeyboardStep > pageKeyboardStep

\* C15: whenever downProperty changes to true while the model is enabled,
\* valueProperty becomes valueOn; whenever downProperty changes to false,
\* valueProperty becomes valueOff, enabled or not; a press while disabled
\* leaves valueProperty as it was.
C15_MomentaryOnOff ==
  /\ [][(~mDown /\ mDown' /\ mEnabled) => mValue' = "valueOn"]_vars
  /\ [][(mDown /\ ~mDown') => mValue' = "valueOff"]_vars
  /\ [][(~mDown /\ mDown' /\ ~mEnabled /\ mCalls'[1] = "down")
          => mValue' = mValue]_vars

\* C15 witness: the button was pressed while disabled and is still off.
C15_Witness ==
  /\ mCalls = <<"down">>
  /\ mDown /\ ~mEnabled
  /\ mValue = "valueOff"

\* C16: disposal unlinks every listener. Once the handler is disposed of,
\* changes of the value and of the enabled range leave aria-valuenow (with
\* the input value and aria-valuetext) and the min and max attributes as they
\* are; once the momentary button model is disposed of, a change of
\* valueProperty leaves downProperty and a change of downProperty leaves
\* valueProperty as it is.
C16_DisposeUnlinks ==
  /\ [][DisposeHandler => linkedListeners' = {}]_vars
  /\ [][(linkedListeners = {})
          => (linkedListeners' = {} /\ UNCHANGED <<ariaValueNow, attrRange>>)]_vars
  /\ [][MomentaryDispose => mLinked' = {}]_vars
  /\ [][(mLinked = {})
          => /\ mLinked' = {}
             /\ (mValue' # mValue) => (mDown' = mDown)
             /\ (mDown' # mDown) => (mValue' = mValue)]_vars

\* C16 witness: after both disposals the value, the enabled range and the
\* button's valueProperty changed, and the attributes and downProperty did
\* not follow.
C16_Witness ==
  /\ linkedListeners = {}
  /\ ariaValueNow # getA11yFormattedValue(value)
  /\ attrRange # enabledRange
  /\ mLinked = {}
  /\ mValue = "valueOn" /\ ~mDown

\* C17: a fire of an enabled checkbox sets the property to its negation and
\* plays the checked sound if the new value is true, the unchecked sound if
\* it is false; a second fire right after restores the value; a fire of a
\* disabled checkbox leaves the property and plays nothing.
C17_CheckboxToggles ==
  /\ [][(CheckboxFire /\ cbEnabled)
          => /\ cbProperty' = ~cbProperty
             /\ cbCalls' = <<"fire", "toggle",
                             IF cbProperty' THEN "checkedSound"
                             ELSE "uncheckedSound">>]_vars
  /\ [][(CheckboxFire /\ ~cbEnabled)
          => (cbProperty' = cbProperty /\ cbCalls' = <<"fire">>)]_vars
  /\ [][(CheckboxFire /\ cbEnabled /\ Len(cbCalls) = 3)
          => cbProperty' = cbBefore]_vars

\* C17 witness: a fire unchecked the checkbox and played the unchecked
\* sound.
C17_Witness ==
  /\ cbCalls = <<"fire", "toggle", "uncheckedSound">>
  /\ cbBefore /\ ~cbProperty
  /\ cbEnabled

Attempts(cs) ==
  {i \in DOMAIN cs : cs[i] \in {"attemptedIncrease", "attemptedDecrease"}}

\* C18: every keydown of a range key handled while enabled emits exactly one
\* of attemptedIncrease (Up, Right, Page Up, End) and attemptedDecrease (Down,
\* Left, Page Down, Home), whether or not the value changes, and the emission
\* comes before the one set of the value property for that event.
C18_AttemptedEmitters ==
  [][\A code \in RangeKeys, shift \in BOOLEAN :
       (enabled /\ KeyDown(code, shift))
         => /\ Cardinality(Attempts(calls')) = 1
            /\ \A i \in Attempts(calls') :
                 /\ calls'[i] = (IF code \in {"up", "right", "pageUp", "end"}
                                   THEN "attemptedIncrease"
                                   ELSE "attemptedDecrease")
                 /\ \E j \in DOMAIN calls' : j > i /\ calls'[j] = "set"
                 /\ \A j \in DOMAIN calls' : calls'[j] = "set" => j > i]_vars

\* a decrease was attempted by a keydown that left the value at the top of a
\* range that is not a single point: the step was 0
C18_Witness ==
  /\ calls = <<"keydown", "attemptedDecrease", "set">>
  /\ value = enabledRange.max
  /\ enabledRange.min < enabledRange.max

MultipleOf(v, step) == \E k \in (0 - MaxKeyValue) .. MaxKeyValue : v = k * step

\* C19: with roundToStepSize enabled, every value committed by an arrow-key
\* press is a multiple of the keyboardStep, while Page Up, Page Down, Home and
\* End commit their value without rounding.
C19_ArrowCommitsMultiple ==
  /\ [][\A code \in {"left", "right", "up", "down"}, shift \in BOOLEAN :
          (roundToStepSize /\ enabled /\ KeyDown(code, shift))
            => MultipleOf(value', keyboardStep)]_vars
  /\ [][\A shift \in BOOLEAN :
          /\ (roundToStepSize /\ enabled /\ KeyDown("pageUp", shift))
                => value' = Clamp(value + pageKeyboardStep,
                                  enabledRange.min, enabledRange.max)
          /\ (roundToStepSize /\ enabled /\ KeyDown("pageDown", shift))
                => value' = Clamp(value - pageKeyboardStep,
                                  enabledRange.min, enabledRange.max)
          /\ (roundToStepSize /\ enabled /\ KeyDown("home", shift))
                => value' = enabledRange.min
          /\ (roundToStepSize /\ enabled /\ KeyDown("end", shift))
                => value' = enabledRange.max]_vars

Count(cs, name) == Cardinality({i \in DOMAIN cs : cs[i] = name})

\* C20: under any sequence of keydown, keyup and blur events on an enabled
\* handler, startChange and endChange calls strictly alternate beginning with
\* startChange; startChange is called only by a keydown of a range key that
\* arrives when no range key is down, endChange only by the release of the
\* last held range key or by a blur with a key down, and a keyup that arrives
\* when no range key is tracked as down calls neither.
C20_DragBracketing ==
  /\ [][/\ Count(calls', "startChange") + Count(calls', "endChange") <= 1
        /\ (Called("startChange")' => (~changeOpen /\ changeOpen'))
        /\ (Called("endChange")' => (changeOpen /\ ~changeOpen'))
        /\ ((~Called("startChange")' /\ ~Called("endChange")')
              => changeOpen' = changeOpen)]_vars
  /\ [][\A code \in Keys, shift \in BOOLEAN :
          KeyDown(code, shift)
            => /\ (Called("startChange")'
                    <=> (code \in RangeKeys /\ rangeKeysDown = {}))
               /\ ~Called("endChange")']_vars
  /\ [][\A code \in Keys :
          KeyUp(code)
            => /\ (Called("endChange")'
                    <=> (code \in RangeKeys /\ rangeKeysDown = {code}))
               /\ ~Called("startChange")'
               /\ (rangeKeysDown = {} => calls' = <<"keyup">>)]_vars
  /\ [][Blur => /\ (Called("endChange")' <=> rangeKeysDown # {})
                /\ ~Called("startChange")']_vars

\* a second range key went down while the first was held: no startChange
C20_Witness ==
  /\ calls = <<"keydown", "attemptedIncrease", "set">>
  /\ Cardinality(rangeKeysDown) = 2
  /\ changeOpen

\* one keyboardStep from the value towards the target, kept in the range
OneStepTowards(target) ==
  IF target > value
    THEN Clamp(value + keyboardStep, enabledRange.min, enabledRange.max)
  ELSE IF target < value
    THEN Clamp(value - keyboardStep, enabledRange.min, enabledRange.max)
  ELSE value

C22_KeyDownBlocksInput ==
  /\ [][\A code \in Keys, shift \in BOOLEAN :
          KeyDown(code, shift) => blockInput']_vars
  /\ [][blockInput => blockInput']_vars
  /\ [][\A target \in Values :
          (blockInput /\ (Input(target) \/ Change(target)))
            => /\ value' = value
               /\ changeOpen' = changeOpen
               /\ ~Called("startChange")'
               /\ ~Called("endChange")'
               /\ ~Called("set")']_vars

\* an input event arrived on an enabled handler with no key held, after a
\* keydown, and was ignored
C22_Witness ==
  /\ calls = <<"input">>
  /\ enabled
  /\ blockInput
  /\ value = 0
  /\ rangeKeysDown = {}
  /\ ~changeOpen

Min(a, b) == IF a < b THEN a ELSE b
Max(a, b) == IF a > b THEN a ELSE b

\* C23: with roundToStepSize enabled and a step size s > 0 (keyboardStep, or
\* shiftKeyboardStep with Shift held), an arrow-key increase from a value
\* v < max commits a value w with v < w <= min(v + s, max), and an arrow-key
\* decrease from v > min commits w with max(v - s, min) <= w < v.
C23_RoundingMoves ==
  [][\A code \in ArrowKeys, shift \in BOOLEAN :
       LET s == IF shift THEN shiftKeyboardStep ELSE keyboardStep
       IN (roundToStepSize /\ enabled /\ s > 0 /\ KeyDown(code, shift))
            => /\ (code \in {"up", "right"} /\ value < enabledRange.max)
                    => /\ value < value'
                       /\ value' <= Min(value + s, enabledRange.max)
               /\ (code \in {"down", "left"} /\ value > enabledRange.min)
                    => /\ Max(value - s, enabledRange.min) <= value'
                       /\ value' < value]_vars

\* a decrease by the keyboardStep 2 has committed 2: it came from 3, and the
\* stepped value 1 was rounded up to 2
C23_Witness ==
  /\ calls[1] = "keydown"
  /\ Called("attemptedDecrease")
  /\ roundToStepSize
  /\ ~shiftKey
  /\ keyboardStep = 2
  /\ value = 2

KeyStateEmitted(cs) ==
  \E i \in DOMAIN cs : cs[i] \in {"incrementDown(true)", "decrementDown(true)"}

\* C24: a key press that the spinner handles emits incrementDown (Up, Right)
\* or decrementDown (Down, Left) if it is an arrow-key press made with the
\* keyboardStep, and emits neither for Page Up, Page Down, Home or End nor
\* for an arrow-key press with Shift held.
C24_KeyStateOnlyForKeyboardStep ==
  [][\A code \in RangeKeys, shift \in BOOLEAN :
       (enabled /\ ~timerRunning /\ SpinnerKeyDown(code, shift))
         => /\ (code \in {"up", "right"} /\ ~shift)
                 => calls'[Len(calls')] = "incrementDown(true)"
            /\ (code \in {"down", "left"} /\ ~shift)
                 => calls'[Len(calls')] = "decrementDown(true)"
            /\ (code \notin ArrowKeys \/ shift) => ~KeyStateEmitted(calls')]_vars

====
